---- MODULE Spec2Model ----
(***************************************************************************)
(* Model of src/read/mod.rs of the `object` crate: the bounded slicing     *)
(* helper data_range, the address lookup SymbolMap::get, the dispatcher    *)
(* File::parse with File::format, and the facade iterators.                *)
(*                                                                         *)
(* Integers are scaled down: a u64 is U64Bits wide, a usize is either      *)
(* U64Bits wide (64-bit targets) or Usize32Bits wide (32-bit targets).     *)
(* An arithmetic overflow panics when the build has overflow checks        *)
(* (debug profile) and wraps when it has none (release profile).           *)
(***************************************************************************)
EXTENDS Integers, Sequences, FiniteSets, TLC

VARIABLES
    range_call,   \* arguments of the last data_range call
    range_ret,    \* its result
    symbols,      \* SymbolMap.symbols
    get_call,     \* arguments of the last SymbolMap::get call
    get_ret,      \* its result
    filter_call,  \* argument of the last SymbolMap::filter call
    filter_ret,   \* its result
    parse_call,   \* arguments of the last File::parse call
    parse_ret,    \* its result, with the calls it made
    file,         \* the File the caller holds
    format_ret,   \* result of the last File::format call on `file`
    iter,         \* the facade iterator the caller holds
    next_ret      \* result of the last next() call on `iter`

range_vars == <<range_call, range_ret>>
map_vars   == <<symbols, get_call, get_ret>>
filter_vars == <<filter_call, filter_ret>>
file_vars  == <<parse_call, parse_ret, file, format_ret, iter, next_ret>>
vars       == <<range_call, range_ret, symbols, get_call, get_ret, filter_call, filter_ret,
                parse_call, parse_ret, file, format_ret, iter, next_ret>>

(***************************************************************************)
(* Bounds                                                                  *)
(***************************************************************************)
\* scaled width of u64
U64Bits == 3
\* scaled width of usize on a 32-bit target
Usize32Bits == 2
\* longest byte buffer handed to data_range
MaxDataLen == 3
\* most symbols in a SymbolMap
MaxSymbols == 3
\* highest low symbol address and size (the top address is always included)
MaxAddr == 2
\* most items a backend table holds
MaxItems == 2
\* longest input handed to File::parse
MaxFileLen == 17

Pow2(n) == 2 ^ n
U64 == 0 .. (Pow2(U64Bits) - 1)
UsizeWidths == {Usize32Bits, U64Bits}

\* Option / panic results
None == [tag |-> "None", val |-> <<>>]
Panic == [tag |-> "Panic", val |-> <<>>]
Some(v) == [tag |-> "Some", val |-> v]

(***************************************************************************)
(* data_range                                                              *)
(***************************************************************************)
\* `x as usize`: truncation to the target's pointer width
as_usize(x, usize_bits) == x % Pow2(usize_bits)

\* &data[start..end]: panics unless start <= end <= data.len()
slice(data, start, end) ==
    IF start <= end /\ end <= Len(data)
    THEN Some(SubSeq(data, start + 1, end))
    ELSE Panic

data_range_lt(data, data_address, range_address, size, usize_bits, overflow_checks) ==
    IF range_address >= data_address
    THEN LET start_offset == as_usize(range_address - data_address, usize_bits)
             sum == start_offset + as_usize(size, usize_bits)
         IN  IF sum >= Pow2(usize_bits) /\ overflow_checks
             THEN Panic
             ELSE LET end_offset == sum % Pow2(usize_bits)
                  IN  IF end_offset < Len(data)
                      THEN slice(data, start_offset, end_offset)
                      ELSE None
    ELSE None

data_range(data, data_address, range_address, size, usize_bits, overflow_checks) ==
    IF range_address >= data_address
    THEN LET start_offset == as_usize(range_address - data_address, usize_bits)
             sum == start_offset + as_usize(size, usize_bits)
         IN  IF sum >= Pow2(usize_bits) /\ overflow_checks
             THEN Panic
             ELSE LET end_offset == sum % Pow2(usize_bits)
                  IN  IF end_offset <= Len(data)
                      THEN slice(data, start_offset, end_offset)
                      ELSE None
    ELSE None

\* the buffer of n bytes whose i-th byte is i, so that a slice names its place
Buffer(n) == [i \in 1 .. n |-> i - 1]
\* a slice holds at most isize::MAX bytes
BufferLens(usize_bits) == {n \in 0 .. MaxDataLen : n <= Pow2(usize_bits - 1) - 1}

\* the mapped data of a segment or section, on some target and build profile
RangeSetups ==
    UNION {[data : {Buffer(n) : n \in BufferLens(w)}, data_address : U64,
            range_address : {0}, size : {0},
            usize_bits : {w}, overflow_checks : BOOLEAN, called : {FALSE}] :
             w \in UsizeWidths}

\* Segment::data_range / Section::data_range reaching the shared helper
DataRange ==
    /\ ~range_call.called
    /\ \E range_address \in U64, size \in U64 :
        /\ range_call' = [range_call EXCEPT !.range_address = range_address,
                                            !.size = size, !.called = TRUE]
        /\ range_ret' = data_range(range_call.data, range_call.data_address,
                                   range_address, size, range_call.usize_bits,
                                   range_call.overflow_checks)
    /\ UNCHANGED <<map_vars, filter_vars, file_vars>>

(***************************************************************************)
(* SymbolMap::get                                                          *)
(***************************************************************************)
\* The closure handed to binary_search_by.  symbol.address + symbol.size is
\* an unchecked u64 addition.
compare_le(symbol, address, overflow_checks) ==
    IF address < symbol.address
    THEN "Greater"
    ELSE LET sum == symbol.address + symbol.size
         IN  IF sum >= Pow2(U64Bits) /\ overflow_checks
             THEN "Panic"
             ELSE IF address <= sum % Pow2(U64Bits) THEN "Equal" ELSE "Less"

compare(symbol, address, overflow_checks) ==
    IF address < symbol.address
    THEN "Greater"
    ELSE LET sum == symbol.address + symbol.size
         IN  IF sum >= Pow2(U64Bits) /\ overflow_checks
             THEN "Panic"
             ELSE IF address < sum % Pow2(U64Bits) THEN "Equal" ELSE "Less"

\* slice::binary_search_by as the standard library implements it: the
\* halving loop that ends with one comparison (Rust up to 1.51, and 1.82 on)
RECURSIVE search_halving(_, _, _, _, _)
search_halving(s, address, overflow_checks, base, size) ==
    IF size > 1
    THEN LET half == size \div 2
             mid == base + half
             cmp == compare(s[mid + 1], address, overflow_checks)
         IN  IF cmp = "Panic"
             THEN Panic
             ELSE search_halving(s, address, overflow_checks,
                                 IF cmp = "Greater" THEN base ELSE mid, size - half)
    ELSE LET cmp == compare(s[base + 1], address, overflow_checks)
         IN  IF cmp = "Panic" THEN Panic
             ELSE IF cmp = "Equal" THEN Some(base) ELSE None

\* ... and the loop that returns at the first Equal (Rust 1.52 to 1.81)
RECURSIVE search_early(_, _, _, _, _)
search_early(s, address, overflow_checks, left, right) ==
    IF left < right
    THEN LET mid == left + (right - left) \div 2
             cmp == compare(s[mid + 1], address, overflow_checks)
         IN  IF cmp = "Panic" THEN Panic
             ELSE IF cmp = "Less"
             THEN search_early(s, address, overflow_checks, mid + 1, right)
             ELSE IF cmp = "Greater"
             THEN search_early(s, address, overflow_checks, left, mid)
             ELSE Some(mid)
    ELSE None

StdSearches == {"halving", "early"}

binary_search_by(s, address, overflow_checks, std) ==
    IF std = "halving"
    THEN IF Len(s) = 0 THEN None ELSE search_halving(s, address, overflow_checks, 0, Len(s))
    ELSE search_early(s, address, overflow_checks, 0, Len(s))

SymbolMap_get_next(s, address, overflow_checks, std) ==
    LET found == binary_search_by(s, address, overflow_checks, std)
    IN  IF found.tag = "Some"
        THEN IF found.val + 1 < Len(s) THEN Some(s[found.val + 2]) ELSE None
        ELSE found

\* .ok().and_then(|index| self.symbols.get(index))
SymbolMap_get(s, address, overflow_checks, std) ==
    LET found == binary_search_by(s, address, overflow_checks, std)
    IN  IF found.tag = "Some"
        THEN IF found.val < Len(s) THEN Some(s[found.val + 1]) ELSE None
        ELSE found

\* SymbolKind
SymbolKinds == {"Unknown", "Null", "Text", "Data", "Section", "File", "Common", "Tls"}

SymbolMap_filter_common(symbol) ==
    IF symbol.kind \in {"Unknown", "Text", "Data", "Common"}
    THEN ~symbol.undefined /\ symbol.size > 0
    ELSE FALSE

\* SymbolMap::filter: the match on the kind, then !is_undefined() && size() > 0
SymbolMap_filter(symbol) ==
    IF symbol.kind \in {"Null", "Section", "File", "Common", "Tls"}
    THEN FALSE
    ELSE ~symbol.undefined /\ symbol.size > 0

Filter ==
    /\ ~filter_call.called
    /\ filter_call' = [filter_call EXCEPT !.called = TRUE]
    /\ filter_ret' = SymbolMap_filter(filter_call)
    /\ UNCHANGED <<range_vars, map_vars, file_vars>>

\* Symbols the map admits have a size above 0; the map is sorted by address.
TopAddr == Pow2(U64Bits) - 1
SymAddrs == (0 .. MaxAddr) \cup {TopAddr}
SymSizes == (1 .. MaxAddr) \cup {TopAddr}
Symbols == [address : SymAddrs, size : SymSizes]
Sorted(s) == \A i \in 1 .. (Len(s) - 1) : s[i].address <= s[i + 1].address
SymbolMaps ==
    UNION {{s \in [1 .. n -> Symbols] : Sorted(s)} : n \in 0 .. MaxSymbols}

Get ==
    /\ ~get_call.called
    /\ \E address \in U64 :
        /\ get_call' = [get_call EXCEPT !.address = address, !.called = TRUE]
        /\ get_ret' = SymbolMap_get(symbols, address, get_call.overflow_checks,
                                    get_call.std)
    /\ UNCHANGED <<symbols, range_vars, filter_vars, file_vars>>

(***************************************************************************)
(* File::parse                                                             *)
(***************************************************************************)
MinFileLen == 16
SniffLen == 16

WASM_MAGIC == <<0, 97, 115, 109>>
ELFMAG == <<127, 69, 76, 70>>
ARCHIVE_MAGIC == <<33, 60, 97, 114, 99, 104, 62, 10>>
DOS_MAGIC == <<77, 90>>
MH_MAGIC == <<254, 237, 250, 206>>
MH_CIGAM == <<206, 250, 237, 254>>
MH_MAGIC_64 == <<254, 237, 250, 207>>
MH_CIGAM_64 == <<207, 250, 237, 254>>
FAT_MAGIC == <<202, 254, 186, 190>>

\* &data[..n]
Prefix(data, n) == SubSeq(data, 1, n)

DispatcherErrors == {"File too short", "Could not parse file magic", "Unknown file magic"}
BackendErrors == {"backend diagnostic 1", "backend diagnostic 2"}
\* What the one backend would answer on this input: a parsed file of either
\* bitness, or its own diagnostic.
BackendOutcomes ==
    [ok : {TRUE}, is_64 : BOOLEAN, msg : {""}]
      \cup [ok : {FALSE}, is_64 : {FALSE}, msg : BackendErrors]

NoFile == [variant |-> "None", is_64 |-> FALSE]
Ok(f, calls) == [tag |-> "Ok", file |-> f, msg |-> "", calls |-> calls]
Err(m, calls) == [tag |-> "Err", file |-> NoFile, msg |-> m, calls |-> calls]
Panicked(calls) == [tag |-> "Panic", file |-> NoFile, msg |-> "", calls |-> calls]
\* Ok(None) of parse_wasm
OkNone(calls) == [tag |-> "OkNone", file |-> NoFile, msg |-> "", calls |-> calls]

\* XFile::parse(data)?  wrapped as FileInternal::X
backend_parse(variant, backend, calls) ==
    LET made == Append(calls, variant)
    IN  IF backend.ok
        THEN Ok([variant |-> variant, is_64 |-> backend.is_64], made)
        ELSE Err(backend.msg, made)

parse_wasm_any(data, wasm, backend) ==
    IF ~wasm
    THEN OkNone(<<>>)
    ELSE IF Len(data) < 4
    THEN Panicked(<<"parse_wasm">>)
    ELSE backend_parse("Wasm", backend, <<"parse_wasm">>)

parse_wasm_swallow(data, wasm, backend) ==
    IF ~wasm
    THEN OkNone(<<>>)
    ELSE IF Len(data) < 4
    THEN Panicked(<<"parse_wasm">>)
    ELSE IF Prefix(data, 4) = WASM_MAGIC
    THEN LET r == backend_parse("Wasm", backend, <<"parse_wasm">>)
         IN  IF r.tag = "Err" THEN OkNone(r.calls) ELSE r
    ELSE OkNone(<<"parse_wasm">>)

\* both cfg variants of parse_wasm; `wasm` is the crate feature
parse_wasm(data, wasm, backend) ==
    IF ~wasm
    THEN OkNone(<<>>)
    ELSE IF Len(data) < 4
    THEN Panicked(<<"parse_wasm">>)
    ELSE IF Prefix(data, 4) = WASM_MAGIC
    THEN backend_parse("Wasm", backend, <<"parse_wasm">>)
    ELSE OkNone(<<"parse_wasm">>)

\* goblin::peek_bytes on the first 16 bytes: the hint it gives for each magic.
\* On 16 bytes it has no failing read, so it never answers "Err"; File_parse
\* keeps the arm that maps its error.
peek_bytes(bytes) ==
    IF Prefix(bytes, 4) = ELFMAG THEN "Elf"
    ELSE IF Prefix(bytes, 8) = ARCHIVE_MAGIC THEN "Archive"
    ELSE IF Prefix(bytes, 2) = DOS_MAGIC THEN "PE"
    ELSE IF Prefix(bytes, 4) = FAT_MAGIC THEN "MachFat"
    ELSE IF Prefix(bytes, 4) \in {MH_MAGIC, MH_CIGAM, MH_MAGIC_64, MH_CIGAM_64} THEN "Mach"
    ELSE "Unknown"

too_short_4(data) == Len(data) < 4

too_short(data) == Len(data) < MinFileLen

hint_backend_slip(hint) ==
    CASE hint = "Elf" -> "Elf"
      [] hint = "Mach" -> "MachO"
      [] hint = "PE" -> "MachO"
      [] OTHER -> "None"

\* the match on goblin::Hint
hint_backend(hint) ==
    CASE hint = "Elf" -> "Elf"
      [] hint = "Mach" -> "MachO"
      [] hint = "PE" -> "Pe"
      [] OTHER -> "None"

File_parse(data, wasm, backend) ==
    IF too_short(data)
    THEN Err("File too short", <<>>)
    ELSE LET w == parse_wasm(data, wasm, backend)
         IN  IF w.tag # "OkNone"
             THEN w
             ELSE IF Len(data) < SniffLen
             THEN Panicked(w.calls)
             ELSE LET hint == peek_bytes(Prefix(data, SniffLen))
                      calls == Append(w.calls, "peek_bytes")
                  IN  IF hint = "Err"
                      THEN Err("Could not parse file magic", calls)
                      ELSE IF hint_backend(hint) = "None"
                      THEN Err("Unknown file magic", calls)
                      ELSE backend_parse(hint_backend(hint), backend, calls)

File_format_slip(f) ==
    CASE f.variant = "Elf" -> IF f.is_64 THEN "Elf64" ELSE "Elf32"
      [] f.variant = "MachO" -> IF f.is_64 THEN "MachO64" ELSE "MachO32"
      [] f.variant = "Pe" -> IF f.is_64 THEN "Pe32" ELSE "Pe64"
      [] f.variant = "Wasm" -> "Wasm"

File_format(f) ==
    CASE f.variant = "Elf" -> IF f.is_64 THEN "Elf64" ELSE "Elf32"
      [] f.variant = "MachO" -> IF f.is_64 THEN "MachO64" ELSE "MachO32"
      [] f.variant = "Pe" -> IF f.is_64 THEN "Pe64" ELSE "Pe32"
      [] f.variant = "Wasm" -> "Wasm"

\* inputs: a magic (or none) followed by zero bytes, cut at every length
Magics == {<<>>, WASM_MAGIC, <<0, 97, 115, 0>>, ELFMAG, ARCHIVE_MAGIC, DOS_MAGIC,
           MH_MAGIC, MH_CIGAM, MH_MAGIC_64, MH_CIGAM_64, FAT_MAGIC, <<1, 2, 3, 4>>}
Input(magic, n) == [i \in 1 .. n |-> IF i <= Len(magic) THEN magic[i] ELSE 0]
Inputs == {Input(m, n) : m \in Magics, n \in 0 .. MaxFileLen}

(***************************************************************************)
(* Facade iterators                                                        *)
(***************************************************************************)
IterKinds == {"Segment", "Section", "Symbol", "Relocation"}
NoIter == [kind |-> "None", variant |-> "None", inner |-> [len |-> 0, pos |-> 0]]
Fresh == [tag |-> "Fresh", val |-> <<>>]

\* a backend's iterator over one of its tables: a cursor that only advances
backend_iter(n) == [len |-> n, pos |-> 0]
backend_next(inner) ==
    IF inner.pos < inner.len
    THEN [item |-> Some(inner.pos), inner |-> [inner EXCEPT !.pos = inner.pos + 1]]
    ELSE [item |-> None, inner |-> inner]

\* map_inner!: the backend's iterator wrapped in the variant of the file
map_inner(f, kind, n) ==
    [kind |-> kind, variant |-> f.variant, inner |-> backend_iter(n)]

next_inner_rewind(it) ==
    LET r == backend_next(it.inner)
    IN  IF r.item.tag = "Some"
        THEN [ret |-> Some([variant |-> it.variant, item |-> r.item.val]),
              iter |-> [it EXCEPT !.inner = r.inner]]
        ELSE [ret |-> None, iter |-> [it EXCEPT !.inner = backend_iter(it.inner.len)]]

\* next_inner!: iter.next().map($to::Variant), the cursor advanced in place
next_inner(it) ==
    LET r == backend_next(it.inner)
    IN  [ret |-> IF r.item.tag = "Some"
                 THEN Some([variant |-> it.variant, item |-> r.item.val])
                 ELSE None,
         iter |-> [it EXCEPT !.inner = r.inner]]

\* with_inner_mut!(.., |x| x.next()): the backend's item passed through
with_inner_mut_next(it) ==
    LET r == backend_next(it.inner)
    IN  [ret |-> r.item, iter |-> [it EXCEPT !.inner = r.inner]]

Iterator_next(it) ==
    IF it.kind \in {"Segment", "Section"} THEN next_inner(it) ELSE with_inner_mut_next(it)

(***************************************************************************)
(* A caller parsing one input and using the File                           *)
(***************************************************************************)
NotParsed == [tag |-> "None", file |-> NoFile, msg |-> "", calls |-> <<>>]

Parse ==
    /\ ~parse_call.called
    /\ parse_call' = [parse_call EXCEPT !.called = TRUE]
    /\ parse_ret' = File_parse(parse_call.data, parse_call.wasm, parse_call.backend)
    /\ file' = parse_ret'.file
    /\ UNCHANGED <<format_ret, iter, next_ret, range_vars, map_vars, filter_vars>>

Format ==
    /\ file # NoFile
    /\ format_ret' = File_format(file)
    /\ UNCHANGED <<parse_call, parse_ret, file, iter, next_ret, range_vars, map_vars, filter_vars>>

NewIter(kind) ==
    /\ file # NoFile
    /\ \E n \in 0 .. MaxItems : iter' = map_inner(file, kind, n)
    /\ next_ret' = Fresh
    /\ UNCHANGED <<parse_call, parse_ret, file, format_ret, range_vars, map_vars, filter_vars>>

Segments == NewIter("Segment")
Sections == NewIter("Section")
SymbolsIter == NewIter("Symbol")
Relocations == NewIter("Relocation")

IterNext ==
    /\ iter # NoIter
    /\ LET r == Iterator_next(iter)
       IN  /\ iter' = r.iter
           /\ next_ret' = r.ret
    /\ UNCHANGED <<parse_call, parse_ret, file, format_ret, range_vars, map_vars, filter_vars>>

(***************************************************************************)
(* Specifications                                                          *)
(***************************************************************************)
NoFilterCall == [kind |-> "Null", undefined |-> FALSE, address |-> 0, size |-> 0,
                 called |-> TRUE]
NoRangeCall == [data |-> <<>>, data_address |-> 0, range_address |-> 0, size |-> 0,
                usize_bits |-> U64Bits, overflow_checks |-> FALSE, called |-> TRUE]
NoGetCall == [address |-> 0, overflow_checks |-> FALSE, std |-> "halving", called |-> TRUE]
NoParseCall == [data |-> <<>>, wasm |-> FALSE,
                backend |-> [ok |-> FALSE, is_64 |-> FALSE, msg |-> "backend diagnostic 1"],
                called |-> TRUE]

\* one data_range call on some mapped data
InitRange ==
    /\ range_call \in RangeSetups
    /\ range_ret = None
    /\ symbols = <<>> /\ get_call = NoGetCall /\ get_ret = None
    /\ parse_call = NoParseCall /\ parse_ret = NotParsed /\ file = NoFile
    /\ format_ret = "None" /\ iter = NoIter /\ next_ret = Fresh
    /\ filter_call = NoFilterCall /\ filter_ret = FALSE

\* one lookup in some SymbolMap, under some standard library and build profile
InitMap ==
    /\ symbols \in SymbolMaps
    /\ get_call \in [address : {0}, overflow_checks : BOOLEAN, std : StdSearches,
                     called : {FALSE}]
    /\ get_ret = None
    /\ range_call = NoRangeCall /\ range_ret = None
    /\ parse_call = NoParseCall /\ parse_ret = NotParsed /\ file = NoFile
    /\ format_ret = "None" /\ iter = NoIter /\ next_ret = Fresh
    /\ filter_call = NoFilterCall /\ filter_ret = FALSE

\* one input about to be parsed, with or without the wasm feature
InitFile ==
    /\ parse_call \in [data : Inputs, wasm : BOOLEAN, backend : BackendOutcomes,
                       called : {FALSE}]
    /\ parse_ret = NotParsed
    /\ file = NoFile
    /\ format_ret = "None"
    /\ iter = NoIter
    /\ next_ret = Fresh
    /\ range_call = NoRangeCall /\ range_ret = None
    /\ symbols = <<>> /\ get_call = NoGetCall /\ get_ret = None
    /\ filter_call = NoFilterCall /\ filter_ret = FALSE

\* one symbol of a backend's symbol table about to be offered to the map
InitFilter ==
    /\ filter_call \in [kind : SymbolKinds, undefined : BOOLEAN, address : SymAddrs,
                        size : U64, called : {FALSE}]
    /\ filter_ret = FALSE
    /\ range_call = NoRangeCall /\ range_ret = None
    /\ symbols = <<>> /\ get_call = NoGetCall /\ get_ret = None
    /\ parse_call = NoParseCall /\ parse_ret = NotParsed /\ file = NoFile
    /\ format_ret = "None" /\ iter = NoIter /\ next_ret = Fresh

NextRange == DataRange
SpecRange == InitRange /\ [][NextRange]_vars

NextMap == Get
SpecMap == InitMap /\ [][NextMap]_vars

NextFilter == Filter
SpecFilter == InitFilter /\ [][NextFilter]_vars

NextFile == Parse \/ Format \/ Segments \/ Sections \/ SymbolsIter \/ Relocations \/ IterNext
SpecFile == InitFile /\ [][NextFile]_vars

(***************************************************************************)
(* Properties of data_range (SpecRange)                                    *)
(***************************************************************************)
\* the conversions to usize lose nothing and start_offset + size fits a usize
RangeNoOverflow ==
    LET c == range_call
        W == Pow2(c.usize_bits)
    IN  c.range_address >= c.data_address =>
          /\ c.range_address - c.data_address < W
          /\ c.size < W
          /\ (c.range_address - c.data_address) + c.size < W

\* C1: when no arithmetic overflows, data_range returns Some iff
\* range_address >= data_address and (range_address - data_address) + size <=
\* data.len(); the slice is then data[offset .. offset+size], of length size;
\* in every other case it returns None.
C1_DataRangeContract ==
    (range_call.called /\ RangeNoOverflow) =>
      LET c == range_call
          offset == c.range_address - c.data_address
          inside == c.range_address >= c.data_address /\ offset + c.size <= Len(c.data)
      IN  /\ (range_ret.tag = "Some") <=> inside
          /\ inside => /\ Len(range_ret.val) = c.size
                       /\ \A i \in 1 .. c.size : range_ret.val[i] = c.data[offset + i]
          /\ ~inside => range_ret = None

\* C1 witness: a proper, non-empty slice at a non-zero offset of data mapped at a
\* non-zero address
C1_Witness ==
    /\ range_call.called /\ RangeNoOverflow
    /\ range_ret.tag = "Some"
    /\ range_call.data_address > 0
    /\ range_call.range_address > range_call.data_address
    /\ range_call.size > 0
    /\ range_call.size < Len(range_call.data)

\* C2: when offset + size exceeds the machine word maximum, data_range returns
\* None: it does not wrap, does not index with start > end and does not abort.
\* Stated for 64-bit targets, where the conversions to usize lose nothing.
C2_OverflowIsNone ==
    LET c == range_call
    IN  (/\ c.called
         /\ c.usize_bits = U64Bits
         /\ c.range_address >= c.data_address
         /\ (c.range_address - c.data_address) + c.size >= Pow2(c.usize_bits))
          => range_ret = None

(***************************************************************************)
(* Properties of SymbolMap::get (SpecMap)                                  *)
(***************************************************************************)
\* sym.address <= addr < sym.address + sym.size, in unbounded arithmetic
Covers(sym, addr) == sym.address <= addr /\ addr < sym.address + sym.size
Covering(addr) == {i \in 1 .. Len(symbols) : Covers(symbols[i], addr)}

\* no symbol of the map ends beyond the last u64 address
NoSymbolOverflow ==
    \A i \in 1 .. Len(symbols) : symbols[i].address + symbols[i].size < Pow2(U64Bits)

\* C3: on a map sorted by address, get(addr) returns Some iff some symbol of
\* the map covers addr.  Stated for maps whose address + size never overflows.
C3_GetFindsCovering ==
    (get_call.called /\ NoSymbolOverflow) =>
      ((get_ret.tag = "Some") <=> (Covering(get_call.address) # {}))

\* C4: whenever get(addr) returns Some(sym), sym is a symbol of the map and
\* covers addr, also when symbols overlap.
C4_GetReturnsCovering ==
    (get_call.called /\ get_ret.tag = "Some") =>
      \E i \in Covering(get_call.address) : symbols[i] = get_ret.val

\* C4 witness: a lookup that succeeds where two symbols of the map cover the address
C4_Witness ==
    /\ get_call.called
    /\ get_ret.tag = "Some"
    /\ Cardinality(Covering(get_call.address)) >= 2

(***************************************************************************)
(* Properties of File::parse, File::format and the iterators (SpecFile)    *)
(***************************************************************************)
Backends == {"Elf", "MachO", "Pe", "Wasm"}
\* positions in the calls of the last parse at which a backend parser ran
BackendCalls == {i \in 1 .. Len(parse_ret.calls) : parse_ret.calls[i] \in Backends}
CalledBefore(name, i) == \E j \in 1 .. (i - 1) : parse_ret.calls[j] = name
StartsWith(data, magic) == Len(data) >= Len(magic) /\ Prefix(data, Len(magic)) = magic

\* C5: an input shorter than 16 bytes fails with "File too short" before any
\* magic check, sniffer call or backend parse.
C5_ShortInputRejectedFirst ==
    (parse_call.called /\ Len(parse_call.data) < 16) =>
      /\ parse_ret.tag = "Err"
      /\ parse_ret.msg = "File too short"
      /\ parse_ret.calls = <<>>

\* C5 witness: 8 bytes beginning with the ELF magic were rejected
C5_Witness ==
    /\ parse_call.called
    /\ Len(parse_call.data) = 8
    /\ StartsWith(parse_call.data, ELFMAG)
    /\ parse_ret.msg = "File too short"

\* C6: a backend parser runs only after the sniffing step matched its magic,
\* at most one runs per parse, an Ok File has the variant of the backend that
\* ran, and on the Wasm magic (Wasm enabled) no other backend is tried.
C6_SniffBeforeBackend ==
    parse_call.called =>
      LET d == parse_call.data
          c == parse_ret.calls
      IN  /\ Cardinality(BackendCalls) <= 1
          /\ \A i \in BackendCalls :
               /\ c[i] = "Wasm" => /\ parse_call.wasm
                                   /\ StartsWith(d, WASM_MAGIC)
                                   /\ CalledBefore("parse_wasm", i)
               /\ c[i] = "Elf" => StartsWith(d, ELFMAG) /\ CalledBefore("peek_bytes", i)
               /\ c[i] = "MachO" =>
                    /\ \E m \in {MH_MAGIC, MH_CIGAM, MH_MAGIC_64, MH_CIGAM_64} :
                         StartsWith(d, m)
                    /\ CalledBefore("peek_bytes", i)
               /\ c[i] = "Pe" => StartsWith(d, DOS_MAGIC) /\ CalledBefore("peek_bytes", i)
               /\ parse_ret.tag = "Ok" => parse_ret.file.variant = c[i]
          /\ parse_ret.tag = "Ok" => BackendCalls # {}
          /\ (parse_call.wasm /\ Len(d) >= 16 /\ StartsWith(d, WASM_MAGIC)) =>
               c = <<"parse_wasm", "Wasm">>

\* C6 witness: the Wasm magic matched, the Wasm backend failed, nothing else ran
C6_Witness ==
    /\ parse_call.called
    /\ parse_call.wasm
    /\ StartsWith(parse_call.data, WASM_MAGIC)
    /\ parse_ret.tag = "Err"
    /\ parse_ret.calls = <<"parse_wasm", "Wasm">>

Zeros16 == [i \in 1 .. 16 |-> 0]

\* C7 as stated: 16 zero bytes give "Unknown file magic" with Wasm disabled,
\* and with Wasm enabled reach the Wasm backend and fail with its message.
C7_GarbageAsStated ==
    (parse_call.called /\ parse_call.data = Zeros16) =>
      IF parse_call.wasm
      THEN /\ \E i \in BackendCalls : parse_ret.calls[i] = "Wasm"
           /\ parse_ret.tag = "Err"
           /\ parse_ret.msg \in BackendErrors
      ELSE parse_ret.tag = "Err" /\ parse_ret.msg = "Unknown file magic"

\* C7 amended: 16 zero bytes give "Unknown file magic" whether Wasm support is
\* enabled or not, and no backend parser runs.
C7_GarbageUnknownMagic ==
    (parse_call.called /\ parse_call.data = Zeros16) =>
      /\ parse_ret.tag = "Err"
      /\ parse_ret.msg = "Unknown file magic"
      /\ BackendCalls = {}

\* C7 witness: 16 zero bytes parsed with Wasm enabled
C7_Witness ==
    /\ parse_call.called
    /\ parse_call.data = Zeros16
    /\ parse_call.wasm
    /\ parse_ret.msg = "Unknown file magic"

\* C8: an Err of parse is "File too short" (input < 16 bytes), "Could not
\* parse file magic", "Unknown file magic" (sniffed, no backend matched), or
\* the message of the one backend that ran, unchanged; a backend error is
\* never replaced by a dispatcher message and never becomes Ok.
C8_ErrorsPassThrough ==
    parse_call.called =>
      /\ parse_ret.tag = "Err" =>
           IF BackendCalls # {}
           THEN ~parse_call.backend.ok /\ parse_ret.msg = parse_call.backend.msg
           ELSE \/ parse_ret.msg = "File too short" /\ Len(parse_call.data) < 16
                \/ parse_ret.msg = "Could not parse file magic"
                \/ /\ parse_ret.msg = "Unknown file magic"
                   /\ Len(parse_call.data) >= 16
                   /\ \E j \in 1 .. Len(parse_ret.calls) : parse_ret.calls[j] = "peek_bytes"
      /\ (BackendCalls # {} /\ ~parse_call.backend.ok) =>
           parse_ret.tag = "Err" /\ parse_ret.msg = parse_call.backend.msg

\* C8 witness: the Wasm backend's diagnostic came out of parse
C8_Witness ==
    /\ parse_call.called
    /\ parse_ret.tag = "Err"
    /\ parse_ret.msg \in BackendErrors
    /\ \E i \in BackendCalls : parse_ret.calls[i] = "Wasm"

FormatOf ==
    {<<"Elf", FALSE, "Elf32">>, <<"Elf", TRUE, "Elf64">>,
     <<"MachO", FALSE, "MachO32">>, <<"MachO", TRUE, "MachO64">>,
     <<"Pe", FALSE, "Pe32">>, <<"Pe", TRUE, "Pe64">>,
     <<"Wasm", FALSE, "Wasm">>, <<"Wasm", TRUE, "Wasm">>}

\* C9: format() of a parsed File is the Format of its backend variant and of
\* the backend's is_64(), and every call on the File returns the same value.
C9_FormatMatchesBackend ==
    /\ [](format_ret # "None" => <<file.variant, file.is_64, format_ret>> \in FormatOf)
    /\ [][(format_ret # "None" /\ file' = file) => format_ret' = format_ret]_vars

\* C9 witness: format() answered Pe64 for a 64-bit PE file
C9_Witness ==
    /\ file = [variant |-> "Pe", is_64 |-> TRUE]
    /\ format_ret = "Pe64"

\* C10: once next() of a facade iterator has returned None, every later
\* next() on it returns None, and its cursor never moves back.
C10_ExhaustedStaysExhausted ==
    [][next_ret'.tag # "Fresh" =>
         /\ iter'.inner.pos >= iter.inner.pos
         /\ next_ret.tag = "None" => next_ret'.tag = "None"]_vars

\* C10 witness: a section iterator that yielded all its items and then None
C10_Witness ==
    /\ iter.kind = "Section"
    /\ iter.inner.len = MaxItems
    /\ iter.inner.pos = iter.inner.len
    /\ next_ret = None

(***************************************************************************)
(* Properties of SymbolMap::filter (SpecFilter)                            *)
(***************************************************************************)
\* C11: filter admits a symbol iff its kind is Unknown, Text or Data, it is
\* not undefined and its size is above 0; the kinds Null, Section, File,
\* Common and Tls are rejected whatever the flag and size, and a symbol that
\* is undefined or of size 0 is rejected whatever its kind.
C11_FilterAdmits ==
    filter_call.called =>
      LET c == filter_call
      IN  /\ filter_ret <=>
               (c.kind \in {"Unknown", "Text", "Data"} /\ ~c.undefined /\ c.size > 0)
          /\ c.kind \in {"Null", "Section", "File", "Common", "Tls"} => ~filter_ret
          /\ (c.undefined \/ c.size = 0) => ~filter_ret

\* C11 witness: a defined Common symbol of non-zero size was rejected
C11_Witness ==
    /\ filter_call.called
    /\ filter_call.kind = "Common"
    /\ ~filter_call.undefined
    /\ filter_call.size > 0
    /\ ~filter_ret

(***************************************************************************)
(* Further properties of SymbolMap::get (SpecMap)                          *)
(***************************************************************************)
\* the comparison the lookup is specified by, with a + s unbounded
RangeCompare(sym, addr) ==
    IF addr < sym.address THEN "Greater"
    ELSE IF addr < sym.address + sym.size THEN "Equal"
    ELSE "Less"

\* C12: get never fails, also for symbols whose address + size exceeds the
\* u64 maximum: it returns Some or None, and the range end is computed without
\* overflow, so that every symbol compares as its range [a, a+s) says.
C12_GetNeverFails ==
    get_call.called =>
      /\ get_ret.tag \in {"Some", "None"}
      /\ \A i \in 1 .. Len(symbols) :
           compare(symbols[i], get_call.address, get_call.overflow_checks)
             = RangeCompare(symbols[i], get_call.address)

\* the half-open ranges of the map are pairwise disjoint
DisjointRanges ==
    \A i, j \in 1 .. Len(symbols) :
      i < j => \/ symbols[i].address + symbols[i].size <= symbols[j].address
               \/ symbols[j].address + symbols[j].size <= symbols[i].address

\* the first covering symbol found by scanning the map from the left
RECURSIVE LinearScan(_, _)
LinearScan(i, addr) ==
    IF i > Len(symbols) THEN None
    ELSE IF Covers(symbols[i], addr) THEN Some(symbols[i])
    ELSE LinearScan(i + 1, addr)

\* C13: on a map sorted by address whose ranges are pairwise disjoint and do
\* not overflow, get(addr) returns the one symbol covering addr, or None when
\* there is none: the result of a linear scan of the map.
C13_GetIsLinearScan ==
    (get_call.called /\ NoSymbolOverflow /\ DisjointRanges) =>
      /\ Cardinality(Covering(get_call.address)) <= 1
      /\ get_ret = LinearScan(1, get_call.address)

\* C13 witness: the first of three disjoint symbols was found
C13_Witness ==
    /\ get_call.called /\ NoSymbolOverflow /\ DisjointRanges
    /\ Len(symbols) = 3
    /\ get_ret = Some(symbols[1])
    /\ Covering(get_call.address) = {1}

====
